---- MODULE Spec2Model ----
(***************************************************************************)
(* State-machine model of alertmanager/fake/fake_alertmanager.py: the      *)
(* process-wide lists alerts, alert_groups and silences, the Flask request *)
(* handlers that mutate them, and the background thread alert_generator.   *)
(*                                                                         *)
(* Conventions.                                                            *)
(*  - A Python str is a sequence of one-character strings, so that the     *)
(*    regular-expression search of matches_label can be computed.          *)
(*  - The clock counts whole hours.  A timestamp string is a record        *)
(*    [parsable, instant]: Iso(t) is the strftime rendering of instant t,  *)
(*    Malformed is any text datetime.fromisoformat rejects.                *)
(*  - A Python dict is a function; d.get(k) is dict_get(d, k).             *)
(*  - Every alert dict carries oid, its object identity: alert_groups      *)
(*    holds references to the alert objects, not copies.                   *)
(***************************************************************************)
EXTENDS Integers, Sequences, FiniteSets, TLC

\* ---- bounds of the model ----
MaxTime == 2
MaxAlerts == 2
MaxBatch == 3

\* ---- program constants (the clock unit is one hour, the loop unit one second) ----
RetentionHours == 1
DefaultEndsAtHours == 1
AlertCap == 150
ResolveLowPercent == 15
ResolveHighPercent == 25

VARIABLES alerts, alert_groups, silences, now, generator, sweep, deleter, last

vars == <<alerts, alert_groups, silences, now, generator, sweep, deleter, last>>

\* ---- Python values ----
None == <<"<None>">>

EmptyStr == <<>>

dict_get(d, k) == IF k \in DOMAIN d THEN d[k] ELSE None

dict_get_default(d, k, default) == IF k \in DOMAIN d THEN d[k] ELSE default

Min(a, b) == IF a < b THEN a ELSE b

Max(a, b) == IF a > b THEN a ELSE b

SeqRange(s) == {s[i] : i \in 1..Len(s)}

RECURSIVE SelectIdx(_, _)
\* the subsequence of s at the positions in keep, in order (a list comprehension)
SelectIdx(s, keep) ==
    IF s = <<>> THEN <<>>
    ELSE LET rest == SelectIdx(SubSeq(s, 1, Len(s) - 1), keep)
         IN IF Len(s) \in keep THEN Append(rest, s[Len(s)]) ELSE rest

\* list.remove(x): drop the first element equal to x
ListRemove(s, x) ==
    LET k == CHOOSE i \in 1..Len(s) : s[i] = x /\ \A j \in 1..(i - 1) : s[j] # x
    IN SubSeq(s, 1, k - 1) \o SubSeq(s, k + 1, Len(s))

\* ---- timestamps ----
Iso(t) == [parsable |-> TRUE, instant |-> t]

Malformed == [parsable |-> FALSE, instant |-> 0]

\* datetime.fromisoformat(ts.replace('Z', '+00:00')) raises ValueError
fromisoformat_raises(ts) == ~ts.parsable

fromisoformat(ts) == ts.instant

\* ---- re: the fragment of Python's re used by the modelled matchers ----
\* re.compile raises re.error on an unbalanced parenthesis
re_compile_raises(pattern) == \E i \in 1..Len(pattern) : pattern[i] = "("

\* re.compile raises OverflowError, which is no re.error, on a repetition count
\* of MAXREPEAT or more (a{4294967296}); the element "{N}" stands for such a count
re_compile_overflows(pattern) == \E i \in 1..Len(pattern) : pattern[i] = "{N}"

\* literal body of the pattern without its ^ and $ anchors
re_body(pattern) ==
    LET a == IF Len(pattern) > 0 /\ pattern[1] = "^" THEN Tail(pattern) ELSE pattern
    IN IF Len(a) > 0 /\ a[Len(a)] = "$" THEN SubSeq(a, 1, Len(a) - 1) ELSE a

\* pattern.search(s): the pattern matches at some offset of s
re_search(pattern, s) ==
    LET atStart == Len(pattern) > 0 /\ pattern[1] = "^"
        atEnd == Len(pattern) > 0 /\ pattern[Len(pattern)] = "$"
        body == re_body(pattern)
    IN \E k \in 1..(Len(s) + 1) :
          /\ atStart => k = 1
          /\ k + Len(body) - 1 <= Len(s)
          /\ \A i \in 1..Len(body) : body[i] = "." \/ body[i] = s[k + i - 1]
          /\ atEnd => k + Len(body) - 1 = Len(s)

\* ---- Matcher Evaluator ----
matches_label(matcher, label_value_in) ==
    LET label_value == IF label_value_in = None THEN EmptyStr ELSE label_value_in
        matcher_value == dict_get_default(matcher, "value", EmptyStr)
        is_regex == dict_get_default(matcher, "isRegex", FALSE)
        is_equal == dict_get_default(matcher, "isEqual", TRUE)
        matches == IF is_regex
                   THEN IF re_compile_raises(matcher_value) THEN FALSE
                        ELSE re_search(matcher_value, label_value)
                   ELSE label_value = matcher_value
    IN IF is_equal THEN matches ELSE ~matches

\* matches_label raises: line 175 lets through what is not re.error
matches_label_raises(matcher) ==
    /\ dict_get_default(matcher, "isRegex", FALSE)
    /\ re_compile_overflows(dict_get_default(matcher, "value", EmptyStr))

\* match_silence_to_alert raises ValueError while parsing the window
match_silence_raises(silence) ==
    fromisoformat_raises(silence.startsAt) \/ fromisoformat_raises(silence.endsAt)

\* match_silence_to_alert raises in its matcher loop (lines 201-206): the window
\* holds t, the matchers before matcher k hold, and matcher k raises
match_silence_matcher_raises(silence, alert, t) ==
    /\ ~match_silence_raises(silence)
    /\ ~(t < fromisoformat(silence.startsAt) \/ t > fromisoformat(silence.endsAt))
    /\ \E k \in 1..Len(silence.matchers) :
          /\ matches_label_raises(silence.matchers[k])
          /\ \A m \in 1..(k - 1) :
                /\ ~matches_label_raises(silence.matchers[m])
                /\ matches_label(silence.matchers[m],
                                 dict_get(alert.labels,
                                          dict_get_default(silence.matchers[m], "name",
                                                           EmptyStr)))

\* match_silence_to_alert with a window open at its end (t >= ends_at is outside)
match_silence_half_open(silence, alert, t) ==
    LET starts_at == fromisoformat(silence.startsAt)
        ends_at == fromisoformat(silence.endsAt)
    IN IF t < starts_at \/ t >= ends_at THEN FALSE
       ELSE \A k \in 1..Len(silence.matchers) :
               matches_label(silence.matchers[k],
                             dict_get(alert.labels,
                                      dict_get_default(silence.matchers[k], "name", EmptyStr)))

match_silence_to_alert(silence, alert, t) ==
    LET starts_at == fromisoformat(silence.startsAt)
        ends_at == fromisoformat(silence.endsAt)
    IN IF t < starts_at \/ t > ends_at THEN FALSE
       ELSE \A k \in 1..Len(silence.matchers) :
               matches_label(silence.matchers[k],
                             dict_get(alert.labels,
                                      dict_get_default(silence.matchers[k], "name", EmptyStr)))

\* ---- Silence Applicator ----
RECURSIVE silenced_by_loop(_, _, _, _, _)
\* the inner loop of apply_silences_to_alerts from silence j on: the ids
\* collected, or raised when a window does not parse
silenced_by_loop(sils, alert, t, j, acc) ==
    IF j > Len(sils) THEN [raised |-> FALSE, ids |-> acc]
    ELSE IF match_silence_raises(sils[j]) \/ match_silence_matcher_raises(sils[j], alert, t)
    THEN [raised |-> TRUE, ids |-> acc]
    ELSE silenced_by_loop(sils, alert, t, j + 1,
            IF match_silence_to_alert(sils[j], alert, t)
            THEN Append(acc, sils[j].id) ELSE acc)

\* apply_write without the reset of line 216: the ids found are added to the old list
apply_write_accumulating(alert, silenced_by) ==
    LET all == alert.status.silencedBy \o silenced_by
    IN IF all # <<>>
       THEN [alert EXCEPT !.status.state = "suppressed", !.status.silencedBy = all]
       ELSE [alert EXCEPT !.status.state = IF @ = "suppressed" THEN "active" ELSE @,
                          !.status.silencedBy = <<>>]

\* apply_write without the test of line 229: an uncovered alert is set active
apply_write_forcing_active(alert, silenced_by) ==
    IF silenced_by # <<>>
    THEN [alert EXCEPT !.status.state = "suppressed", !.status.silencedBy = silenced_by]
    ELSE [alert EXCEPT !.status.state = "active", !.status.silencedBy = <<>>]

\* lines 223-231: the write to one alert once silenced_by is known
apply_write(alert, silenced_by) ==
    IF silenced_by # <<>>
    THEN [alert EXCEPT !.status.state = "suppressed", !.status.silencedBy = silenced_by]
    ELSE [alert EXCEPT !.status.state = IF @ = "suppressed" THEN "active" ELSE @,
                       !.status.silencedBy = <<>>]

RECURSIVE apply_loop(_, _, _, _)
apply_loop(als, sils, t, i) ==
    IF i > Len(als) THEN [raised |-> FALSE, alerts |-> als]
    ELSE LET r == silenced_by_loop(sils, als[i], t, 1, <<>>)
         IN IF r.raised THEN [raised |-> TRUE, alerts |-> als]
            ELSE apply_loop([als EXCEPT ![i] = apply_write(als[i], r.ids)], sils, t, i + 1)

apply_silences_to_alerts(als, sils, t) == apply_loop(als, sils, t, 1)

\* ---- remove_silence_from_alerts ----
\* remove_silence_from_alert without lines 240-242: the state is left as it was
remove_silence_keeping_state(alert, silence_id) ==
    IF silence_id \in SeqRange(alert.status.silencedBy)
    THEN [alert EXCEPT !.status.silencedBy = ListRemove(@, silence_id)]
    ELSE alert

remove_silence_from_alert(alert, silence_id) ==
    IF silence_id \in SeqRange(alert.status.silencedBy)
    THEN LET left == ListRemove(alert.status.silencedBy, silence_id)
         IN [alert EXCEPT !.status.silencedBy = left,
                          !.status.state = IF left = <<>> /\ @ = "suppressed"
                                           THEN "active" ELSE @]
    ELSE alert

remove_silence_from_alerts(als, silence_id) ==
    [i \in 1..Len(als) |-> remove_silence_from_alert(als[i], silence_id)]

\* ---- Silence Lifecycle Tracker ----
RECURSIVE expiration_loop(_, _, _, _)
\* check_silence_expiration from silence j on; raised when endsAt does not parse
expiration_loop(sils, als, t, j) ==
    IF j > Len(sils) THEN [raised |-> FALSE, silences |-> sils, alerts |-> als]
    ELSE IF fromisoformat_raises(sils[j].endsAt)
    THEN [raised |-> TRUE, silences |-> sils, alerts |-> als]
    ELSE IF t > fromisoformat(sils[j].endsAt) /\ sils[j].status.state = "active"
    THEN expiration_loop([sils EXCEPT ![j].status.state = "expired"],
                         remove_silence_from_alerts(als, sils[j].id), t, j + 1)
    ELSE expiration_loop(sils, als, t, j + 1)

check_silence_expiration(sils, als, t) == expiration_loop(sils, als, t, 1)

\* ---- the modelled vocabulary ----
\* two of the five RECEIVER_NAMES; none of them contains "_"
RECEIVER_NAMES == {<<"w", "h">>, <<"e", "t">>}

\* two of the ALERT_TEMPLATES, by their alertname and job
ALERT_TEMPLATES ==
    {[alertname |-> <<"c", "p">>, job |-> <<"n">>, instance |-> <<"i">>],
     [alertname |-> <<"c">>, job |-> <<"b">>, instance |-> <<"i">>]}

EmptyDict == <<>>

\* ---- alerts ----
new_status(state) ==
    [state |-> state, silencedBy |-> <<>>, inhibitedBy |-> <<>>, mutedBy |-> <<>>]

\* the identity of a newly allocated alert object: the least one no list refers to
fresh_oid(als, groups) ==
    LET used == {als[i].oid : i \in 1..Len(als)}
                \cup UNION {SeqRange(groups[g].alerts) : g \in 1..Len(groups)}
    IN CHOOSE n \in 1..(Cardinality(used) + 1) :
          n \notin used /\ \A m \in 1..(n - 1) : m \in used

\* ---- Grouping Engine ----
\* group_key without the receiver: the key is the alertname alone
group_key_without_receiver(alert) == alert.labels["alertname"]

group_key(alert) ==
    alert.receivers[1].name \o <<"_">> \o alert.labels["alertname"]

RECURSIVE groups_loop(_, _, _, _)
\* create_alert_groups from alert i on; keys and groups are the insertion-ordered
\* dict built so far; raised is the KeyError of a missing alertname or job
groups_loop(als, i, keys, groups) ==
    IF i > Len(als) THEN [raised |-> FALSE, groups |-> groups]
    ELSE IF "alertname" \notin DOMAIN als[i].labels
    THEN [raised |-> TRUE, groups |-> groups]
    ELSE LET key == group_key(als[i])
         IN IF key \in SeqRange(keys)
            THEN LET g == CHOOSE k \in 1..Len(keys) : keys[k] = key
                 IN groups_loop(als, i + 1, keys,
                       [groups EXCEPT ![g].alerts = Append(@, als[i].oid)])
            ELSE IF "job" \notin DOMAIN als[i].labels
            THEN [raised |-> TRUE, groups |-> groups]
            ELSE groups_loop(als, i + 1, Append(keys, key),
                    Append(groups,
                       [labels |-> [alertname |-> als[i].labels["alertname"],
                                    job |-> als[i].labels["job"]],
                        receiver |-> als[i].receivers[1],
                        alerts |-> <<als[i].oid>>]))

create_alert_groups(als) == groups_loop(als, 1, <<>>, <<>>)

\* ---- POST /api/v2/alerts ----
labels_missing(alert_data) ==
    "labels" \notin DOMAIN alert_data \/ DOMAIN alert_data.labels = {}

RECURSIVE post_alerts_loop(_, _, _, _, _, _)
\* the for loop of post_alerts from element k on: the list after the appends
\* made before the first element without labels (rejected), or after all of them
post_alerts_loop(new_alerts, recv, als, groups, t, k) ==
    IF k > Len(new_alerts) THEN [rejected |-> FALSE, alerts |-> als]
    ELSE IF labels_missing(new_alerts[k]) THEN [rejected |-> TRUE, alerts |-> als]
    ELSE post_alerts_loop(new_alerts, recv,
            Append(als,
               [oid |-> fresh_oid(als, groups),
                labels |-> new_alerts[k].labels,
                endsAt |-> dict_get_default(new_alerts[k], "endsAt",
                                            Iso(t + DefaultEndsAtHours)),
                receivers |-> <<[name |-> recv[k]]>>,
                status |-> new_status("active")]),
            groups, t, k + 1)

\* post_alerts once its for loop has left r: the store, the regroup, the answer
post_alerts_after_loop(r) ==
    LET g == create_alert_groups(r.alerts)
    IN /\ alerts' = r.alerts
       /\ alert_groups' = IF r.rejected \/ g.raised THEN alert_groups ELSE g.groups
       /\ last' = [op |-> "post_alerts",
                   code |-> IF r.rejected THEN 400 ELSE IF g.raised THEN 500 ELSE 200]
       /\ UNCHANGED <<silences, now, generator, sweep, deleter>>

post_alerts(new_alerts, recv) ==
    post_alerts_after_loop(post_alerts_loop(new_alerts, recv, alerts, alert_groups, now, 1))

\* ---- POST /api/v2/silences ----
required_fields == <<"matchers", "startsAt", "endsAt", "createdBy", "comment">>

silence_data_invalid(silence_data) ==
    \/ \E k \in 1..Len(required_fields) : required_fields[k] \notin DOMAIN silence_data
    \/ Len(silence_data.matchers) = 0
    \/ \E k \in 1..Len(silence_data.matchers) :
          ~({"name", "value", "isRegex"} \subseteq DOMAIN silence_data.matchers[k])

new_silence(silence_data) ==
    [id |-> silence_data.id,
     matchers |-> silence_data.matchers,
     startsAt |-> silence_data.startsAt,
     endsAt |-> silence_data.endsAt,
     createdBy |-> silence_data.createdBy,
     comment |-> silence_data.comment,
     status |-> [state |-> "active"]]

\* lines 629-634: drop the stored silence of that id, append the new one
upsert_silence(sils, silence) ==
    LET same == {k \in 1..Len(sils) : sils[k].id = silence.id}
    IN Append(IF same = {} THEN sils
              ELSE ListRemove(sils, sils[CHOOSE k \in same : \A m \in same : k <= m]),
              silence)

post_silences(silence_data) ==
    IF silence_data_invalid(silence_data)
    THEN /\ last' = [op |-> "post_silences", code |-> 400]
         /\ UNCHANGED <<alerts, alert_groups, silences, now, generator, sweep, deleter>>
    ELSE LET sils == upsert_silence(silences, new_silence(silence_data))
             r == apply_silences_to_alerts(alerts, sils, now)
         IN /\ silences' = sils
            /\ alerts' = r.alerts
            /\ last' = [op |-> "post_silences", code |-> IF r.raised THEN 400 ELSE 200]
            /\ UNCHANGED <<alert_groups, now, generator, sweep, deleter>>

\* ---- DELETE /api/v2/silence/<silence_id> ----
delete_silence(silence_id) ==
    LET found == {k \in 1..Len(silences) : silences[k].id = silence_id}
    IN IF found = {}
       THEN /\ last' = [op |-> "delete_silence", code |-> 404]
            /\ UNCHANGED <<alerts, alert_groups, silences, now, generator, sweep, deleter>>
       ELSE /\ alerts' = remove_silence_from_alerts(alerts, silence_id)
            /\ silences' = ListRemove(silences,
                              silences[CHOOSE k \in found : \A m \in found : k <= m])
            /\ last' = [op |-> "delete_silence", code |-> 200]
            /\ UNCHANGED <<alert_groups, now, generator, sweep, deleter>>

\* ---- GET /api/v2/alerts ----
\* str.lower() on the letters the modelled query strings use
char_lower(c) ==
    CASE c = "T" -> "t" [] c = "R" -> "r" [] c = "U" -> "u" [] c = "E" -> "e"
      [] c = "F" -> "f" [] c = "A" -> "a" [] c = "L" -> "l" [] c = "S" -> "s"
      [] OTHER -> c

str_lower(str) == [k \in 1..Len(str) |-> char_lower(str[k])]

\* needle in str
str_contains(needle, str) ==
    \E k \in 1..(Len(str) - Len(needle) + 1) : SubSeq(str, k, k + Len(needle) - 1) = needle

true_str == <<"t", "r", "u", "e">>

\* args.get(name, 'true').lower() == 'true'
flag(args, name) == str_lower(dict_get_default(args, name, true_str)) = true_str

\* lines 429-438 with state 'resolved' handled like 'active'
alert_filtered_out_resolved_as_active(alert, active, silenced, inhibited, unprocessed) ==
    \/ alert.status.state \in {"active", "resolved"} /\ ~active
    \/ alert.status.state = "suppressed" /\ ~silenced
    \/ alert.status.state = "unprocessed" /\ ~unprocessed
    \/ alert.status.inhibitedBy # <<>> /\ ~inhibited

\* lines 429-438: the four tests that skip an alert
alert_filtered_out(alert, active, silenced, inhibited, unprocessed) ==
    \/ alert.status.state = "active" /\ ~active
    \/ alert.status.state = "suppressed" /\ ~silenced
    \/ alert.status.state = "unprocessed" /\ ~unprocessed
    \/ alert.status.inhibitedBy # <<>> /\ ~inhibited

filter_alerts_by_params(alert_list, args) ==
    LET active == flag(args, "active")
        silenced == flag(args, "silenced")
        inhibited == flag(args, "inhibited")
        unprocessed == flag(args, "unprocessed")
    IN SelectIdx(alert_list,
          {i \in 1..Len(alert_list) :
              ~alert_filtered_out(alert_list[i], active, silenced, inhibited, unprocessed)})

\* filter_str.split('=', 1) when '=' in filter_str; a filter string is the
\* sequence of a label name, "=" and the letters of the value
split_filter(filter_str) ==
    LET k == CHOOSE i \in 1..Len(filter_str) :
                 filter_str[i] = "=" /\ \A m \in 1..(i - 1) : filter_str[m] # "="
    IN [key |-> SubSeq(filter_str, 1, k - 1),
        value |-> SubSeq(filter_str, k + 1, Len(filter_str))]

\* alert["labels"].get(key) == value
label_equals(alert, key, value) ==
    /\ Len(key) = 1
    /\ dict_get(alert.labels, key[1]) = value

RECURSIVE label_filters_loop(_, _, _)
\* lines 494-500 from filter k on
label_filters_loop(filtered, filters, k) ==
    IF k > Len(filters) THEN filtered
    ELSE IF ~str_contains(<<"=">>, filters[k])
    THEN label_filters_loop(filtered, filters, k + 1)
    ELSE LET f == split_filter(filters[k])
         IN label_filters_loop(
               SelectIdx(filtered,
                  {i \in 1..Len(filtered) : label_equals(filtered[i], f.key, f.value)}),
               filters, k + 1)

\* get_alerts; receiver_filter is None when the query has no receiver, filters
\* is the list of the filter parameters
get_alerts(als, args, receiver_filter, filters) ==
    LET by_state == filter_alerts_by_params(als, args)
        by_receiver ==
            IF receiver_filter = None \/ receiver_filter = EmptyStr THEN by_state
            ELSE SelectIdx(by_state,
                    {i \in 1..Len(by_state) :
                        \E r \in 1..Len(by_state[i].receivers) :
                           str_contains(receiver_filter, by_state[i].receivers[r].name)})
    IN label_filters_loop(by_receiver, filters, 1)

\* ---- generate_random_alert ----
generate_random_alert(template, recv, state, oid, t) ==
    [oid |-> oid,
     labels |-> [alertname |-> template.alertname, job |-> template.job,
                 instance |-> template.instance],
     endsAt |-> Iso(t + 1),
     receivers |-> <<[name |-> recv]>>,
     status |-> new_status(state)]

\* ---- alert_generator: the background thread ----
\* Each block of the loop body is one step.  Every block sits behind a
\* random.random() test or a timer (lines 342, 354, 360, 368, 392, 412), so a
\* pass through the body may skip any of them, and the block that runs next can
\* be any block, of this iteration or of a later one: the steps are not ordered.
\* An exception no block catches ends the thread (Dead).
Running == [alive |-> TRUE]

Dead == [alive |-> FALSE]

\* the sweep of the silences block and a DELETE request when they are not running
SweepIdle == [pc |-> "idle", i |-> 0, j |-> 0, silenced_by |-> <<>>]

DeleterIdle == [pc |-> "idle", id |-> "", i |-> 0, code |-> 0]

\* the thread after a block: still running, or dead of the uncaught exception
after_block(raised) == IF raised THEN Dead ELSE generator

\* lines 344-350 once generate_random_alert has returned new_alert
GenerateWith(new_alert) ==
    /\ generator.alive
    /\ Len(alerts) < MaxAlerts
    /\ LET appended == Append(alerts, new_alert)
           capped == IF Len(appended) > AlertCap THEN Tail(appended) ELSE appended
           g == create_alert_groups(capped)
       IN /\ alerts' = capped
          /\ alert_groups' = IF g.raised THEN alert_groups ELSE g.groups
          /\ generator' = after_block(g.raised)
          /\ last' = [op |-> "generate", code |-> IF g.raised THEN -1 ELSE 0]
    /\ UNCHANGED <<silences, now, sweep, deleter>>

Generate(template, recv, state) ==
    GenerateWith(generate_random_alert(template, recv, state,
                                       fresh_oid(alerts, alert_groups), now))

\* alert["updatedAt"] = now (lines 355, 381).  Only the alerts of SpecResolve
\* carry the field; on an alert that does not carry it the write leaves no trace.
set_updatedAt(alert, t) ==
    IF "updatedAt" \in DOMAIN alert THEN [alert EXCEPT !.updatedAt = Iso(t)] ELSE alert

\* update_alert with the test of line 356 widened to every state but resolved
update_alert_not_resolved(alert, t) ==
    [set_updatedAt(alert, t) EXCEPT !.status.state = IF @ # "resolved" THEN "active" ELSE @]

\* lines 355-357 on one alert
update_alert(alert, t) ==
    [set_updatedAt(alert, t) EXCEPT !.status.state = IF @ = "unprocessed" THEN "active" ELSE @]

\* the processing pass over the alerts that drew random.random() < 0.1
UpdateAlerts(chosen) ==
    /\ generator.alive
    /\ chosen # {}
    /\ alerts' = [i \in 1..Len(alerts) |->
                     IF i \in chosen THEN update_alert(alerts[i], now) ELSE alerts[i]]
    /\ generator' = after_block(FALSE)
    /\ last' = [op |-> "update", code |-> 0]
    /\ UNCHANGED <<alert_groups, silences, now, sweep, deleter>>

\* lines 360-365 as one step: expiration, then the sweep
Tick ==
    /\ generator.alive
    /\ LET e == check_silence_expiration(silences, alerts, now)
           a == apply_silences_to_alerts(e.alerts, e.silences, now)
           raised == e.raised \/ a.raised
       IN /\ silences' = e.silences
          /\ alerts' = IF e.raised THEN e.alerts ELSE a.alerts
          /\ generator' = after_block(raised)
          /\ last' = [op |-> "tick", code |-> IF raised THEN -1 ELSE 0]
    /\ UNCHANGED <<alert_groups, now, sweep, deleter>>

\* line 372 taking the suppressed alerts too
active_alerts_or_suppressed(als) ==
    {i \in 1..Len(als) : als[i].status.state \in {"active", "suppressed"}}

active_alerts(als) == {i \in 1..Len(als) : als[i].status.state = "active"}

\* max(1, int(n * random.uniform(0.15, 0.25))), capped by min(resolve_count, n)
resolve_counts(n) ==
    {Min(Max(1, c), n) :
        c \in ((n * ResolveLowPercent) \div 100)..((n * ResolveHighPercent) \div 100)}

\* lines 379-381 on one alert
resolve_alert(alert, t) ==
    set_updatedAt([alert EXCEPT !.status.state = "resolved", !.endsAt = Iso(t)], t)

\* line 382: the f-string reads labels['alertname'] and labels['instance']
resolve_print_raises(alert) ==
    "alertname" \notin DOMAIN alert.labels \/ "instance" \notin DOMAIN alert.labels

\* lines 368-389.  chosen is the random.sample; done is the part of it the for
\* loop got through: all of it, or, when line 382 raises KeyError, the alerts
\* sampled before the raising one and the raising one itself.
Resolve(chosen, done) ==
    /\ generator.alive
    /\ IF active_alerts(alerts) = {}
       THEN /\ chosen = {} /\ done = {}
            /\ generator' = after_block(FALSE)
            /\ last' = [op |-> "resolve", code |-> 0]
            /\ UNCHANGED <<alerts, alert_groups>>
       ELSE /\ chosen \subseteq active_alerts(alerts)
            /\ Cardinality(chosen) \in resolve_counts(Cardinality(active_alerts(alerts)))
            /\ done \subseteq chosen
            /\ LET bad == {i \in chosen : resolve_print_raises(alerts[i])}
                   print_raised == bad # {}
                   resolved == [i \in 1..Len(alerts) |->
                                  IF i \in done THEN resolve_alert(alerts[i], now)
                                  ELSE alerts[i]]
                   g == create_alert_groups(resolved)
                   raised == print_raised \/ g.raised
               IN /\ IF print_raised THEN Cardinality(done \cap bad) = 1 ELSE done = chosen
                  /\ alerts' = resolved
                  /\ alert_groups' = IF raised THEN alert_groups ELSE g.groups
                  /\ generator' = after_block(raised)
                  /\ last' = [op |-> "resolve", code |-> IF raised THEN -1 ELSE 0]
    /\ UNCHANGED <<silences, now, sweep, deleter>>

\* lines 396-401: the resolved alerts whose endsAt is older than one hour
alerts_to_remove(als, current_time) ==
    {i \in 1..Len(als) :
        /\ als[i].status.state = "resolved"
        /\ ~fromisoformat_raises(als[i].endsAt)
        /\ fromisoformat(als[i].endsAt) < current_time - RetentionHours}

cleanup_raises(als) ==
    \E i \in 1..Len(als) :
        als[i].status.state = "resolved" /\ fromisoformat_raises(als[i].endsAt)

Cleanup ==
    /\ generator.alive
    /\ alerts # <<>>
    /\ LET gone == alerts_to_remove(alerts, now)
           kept == SelectIdx(alerts, (1..Len(alerts)) \ gone)
           g == create_alert_groups(kept)
           raised == cleanup_raises(alerts) \/ (gone # {} /\ g.raised)
       IN /\ alerts' = IF cleanup_raises(alerts) THEN alerts ELSE kept
          /\ alert_groups' = IF gone = {} \/ raised THEN alert_groups ELSE g.groups
          /\ generator' = after_block(raised)
          /\ last' = [op |-> "cleanup", code |-> IF raised THEN -1 ELSE 0]
    /\ UNCHANGED <<silences, now, sweep, deleter>>

\* lines 412-414: alerts.pop(0), then regroup
RemoveOld ==
    /\ generator.alive
    /\ alerts # <<>>
    /\ LET g == create_alert_groups(Tail(alerts))
       IN /\ alerts' = Tail(alerts)
          /\ alert_groups' = IF g.raised THEN alert_groups ELSE g.groups
          /\ generator' = after_block(g.raised)
          /\ last' = [op |-> "remove", code |-> IF g.raised THEN -1 ELSE 0]
    /\ UNCHANGED <<silences, now, sweep, deleter>>

\* the wall clock (datetime.now(UTC)), in hours
AdvanceClock ==
    /\ now < MaxTime
    /\ now' = now + 1
    /\ last' = [op |-> "clock", code |-> 0]
    /\ UNCHANGED <<alerts, alert_groups, silences, generator, sweep, deleter>>

\* ---- request payloads ----
SilenceIds == {"s1", "s2"}

exact_c == [name |-> "alertname", value |-> <<"c">>, isRegex |-> FALSE, isEqual |-> TRUE]

regex_c == [name |-> "alertname", value |-> <<"c">>, isRegex |-> TRUE, isEqual |-> TRUE]

silence_payload(id, matchers, window) ==
    [id |-> id, matchers |-> matchers, startsAt |-> window[1], endsAt |-> window[2],
     createdBy |-> "u", comment |-> "c"]

no_comment ==
    [id |-> "s1", matchers |-> <<exact_c>>, startsAt |-> Iso(0), endsAt |-> Iso(1),
     createdBy |-> "u"]

valid_alert == [labels |-> [alertname |-> <<"c">>, job |-> <<"b">>]]

no_alertname == [labels |-> [job |-> <<"b">>]]

\* ---- the state at start-up (lines 708-743) ----
InitialSilenceHours == 2

initial_silence(value) ==
    [id |-> "s1",
     matchers |-> <<[name |-> "alertname", value |-> value,
                     isRegex |-> FALSE, isEqual |-> TRUE]>>,
     startsAt |-> Iso(0),
     endsAt |-> Iso(InitialSilenceHours),
     createdBy |-> "u",
     comment |-> "c",
     status |-> [state |-> "active"]]

AlertStates == {"active", "unprocessed"}

\* the lists of n alerts the start-up loop can generate
RECURSIVE initial_alerts(_, _, _)
initial_alerts(n, templates, receivers) ==
    IF n = 0 THEN {<<>>}
    ELSE {Append(als, generate_random_alert(tp, r, st, n, 0)) :
             als \in initial_alerts(n - 1, templates, receivers),
             tp \in templates, r \in receivers, st \in AlertStates}

InitOver(templates, receivers, values) ==
    /\ now = 0
    /\ \E n \in 0..MaxAlerts : \E als \in initial_alerts(n, templates, receivers) :
       \E value \in values :
          /\ silences = <<initial_silence(value)>>
          /\ alert_groups = create_alert_groups(als).groups
          /\ alerts = apply_silences_to_alerts(als, silences, 0).alerts
    /\ generator = Running
    /\ sweep = SweepIdle
    /\ deleter = DeleterIdle
    /\ last = [op |-> "start", code |-> 0]

PostAlerts(batches, receivers) ==
    \E batch \in batches : \E recv \in [1..Len(batch) -> receivers] :
        /\ Len(alerts) + Len(batch) <= MaxAlerts
        /\ post_alerts(batch, recv)

PostSilences(inputs) == \E silence_data \in inputs : post_silences(silence_data)

DeleteSilence == \E silence_id \in SilenceIds : delete_silence(silence_id)

GeneratorStep(templates, receivers) ==
    \/ \E tp \in templates, r \in receivers, st \in AlertStates : Generate(tp, r, st)
    \/ \E chosen \in SUBSET (1..Len(alerts)) : UpdateAlerts(chosen)
    \/ Tick
    \/ \E chosen \in SUBSET (1..Len(alerts)) : \E done \in SUBSET chosen :
          Resolve(chosen, done)
    \/ Cleanup
    \/ RemoveOld

\* ---- Spec: requests and the blocks of the thread's loop, each as one step ----
SpecTemplates == {tp \in ALERT_TEMPLATES : tp.job = <<"n">>}

SpecReceivers == {r \in RECEIVER_NAMES : r[1] = "w"}

SpecBatches == {<<valid_alert>>, <<valid_alert, EmptyDict>>, <<no_alertname>>}

SpecWindows == {<<Iso(1), Iso(1)>>, <<Iso(0), Malformed>>}

SpecSilences ==
    {silence_payload(id, <<regex_c>>, w) : id \in SilenceIds, w \in SpecWindows}
        \cup {no_comment}

Init == InitOver(SpecTemplates, SpecReceivers, {<<"c", "p">>})

Next ==
    \/ PostAlerts(SpecBatches, SpecReceivers)
    \/ PostSilences(SpecSilences)
    \/ DeleteSilence
    \/ GeneratorStep(SpecTemplates, SpecReceivers)
    \/ AdvanceClock

Spec == Init /\ [][Next]_vars

\* ---- SpecRace: a DELETE request beside the thread's silences block ----
\* Flask serves each request on a thread of its own and the module takes no
\* lock, so the statements of delete_silence interleave with those of the
\* silences block.  One step is one source line; check_silence_expiration is
\* taken as one step.  The alert list keeps its length here, so the position
\* of a list iterator identifies the alert object it yielded.

\* lines 360-363: the timer fired; the expiration check, then the sweep starts
TickBegin ==
    /\ generator.alive
    /\ sweep.pc = "idle"
    /\ LET e == check_silence_expiration(silences, alerts, now)
       IN /\ silences' = e.silences
          /\ alerts' = e.alerts
          /\ generator' = after_block(e.raised)
          /\ sweep' = [SweepIdle EXCEPT !.pc = IF e.raised THEN "done" ELSE "next_alert"]
    /\ UNCHANGED <<alert_groups, now, deleter, last>>

\* lines 214-216: the outer iterator yields the next alert, or the sweep ends
SweepNextAlert ==
    /\ sweep.pc = "next_alert"
    /\ IF sweep.i < Len(alerts)
       THEN /\ sweep' = [pc |-> "next_silence", i |-> sweep.i + 1, j |-> 0,
                         silenced_by |-> <<>>]
            /\ UNCHANGED last
       ELSE /\ sweep' = [SweepIdle EXCEPT !.pc = "done"]
            /\ last' = [op |-> "tick", code |-> 0]
    /\ UNCHANGED <<alerts, alert_groups, silences, now, generator, deleter>>

\* lines 219-221: the inner iterator yields the silence at its position in the
\* list as the list is now, or is exhausted
SweepNextSilence ==
    /\ sweep.pc = "next_silence"
    /\ IF sweep.j < Len(silences)
       THEN LET silence == silences[sweep.j + 1]
            IN IF \/ match_silence_raises(silence)
                  \/ match_silence_matcher_raises(silence, alerts[sweep.i], now)
               THEN /\ sweep' = [SweepIdle EXCEPT !.pc = "done"]
                    /\ generator' = Dead
                    /\ last' = [op |-> "tick", code |-> -1]
               ELSE /\ sweep' = [sweep EXCEPT
                           !.j = @ + 1,
                           !.silenced_by =
                               IF match_silence_to_alert(silence, alerts[sweep.i], now)
                               THEN Append(@, silence.id) ELSE @]
                    /\ UNCHANGED <<generator, last>>
       ELSE /\ sweep' = [sweep EXCEPT !.pc = "write_state"]
            /\ UNCHANGED <<generator, last>>
    /\ UNCHANGED <<alerts, alert_groups, silences, now, deleter>>

\* lines 224-225, or 229-230 when silenced_by is empty
SweepWriteState ==
    /\ sweep.pc = "write_state"
    /\ alerts' = [alerts EXCEPT ![sweep.i].status.state =
                     IF sweep.silenced_by # <<>> THEN "suppressed"
                     ELSE IF @ = "suppressed" THEN "active" ELSE @]
    /\ sweep' = [sweep EXCEPT !.pc = "write_silenced_by"]
    /\ UNCHANGED <<alert_groups, silences, now, generator, deleter, last>>

\* line 226, or 231 when silenced_by is empty
SweepWriteSilencedBy ==
    /\ sweep.pc = "write_silenced_by"
    /\ alerts' = [alerts EXCEPT ![sweep.i].status.silencedBy = sweep.silenced_by]
    /\ sweep' = [sweep EXCEPT !.pc = "next_alert"]
    /\ UNCHANGED <<alert_groups, silences, now, generator, deleter, last>>

\* lines 656-658: look the silence up; 404 when it is not stored
DeleteBegin(silence_id) ==
    /\ deleter.pc = "idle"
    /\ IF \E k \in 1..Len(silences) : silences[k].id = silence_id
       THEN /\ deleter' = [pc |-> "next_alert", id |-> silence_id, i |-> 0, code |-> 0]
            /\ UNCHANGED last
       ELSE /\ deleter' = [pc |-> "done", id |-> silence_id, i |-> 0, code |-> 404]
            /\ last' = [op |-> "delete_silence", code |-> 404]
    /\ UNCHANGED <<alerts, alert_groups, silences, now, generator, sweep>>

\* lines 235-236: the iterator of remove_silence_from_alerts yields the next
\* alert and the membership test is made, or the loop ends
DeleteNextAlert ==
    /\ deleter.pc = "next_alert"
    /\ deleter' =
          IF deleter.i < Len(alerts)
          THEN [deleter EXCEPT
                   !.i = @ + 1,
                   !.pc = IF deleter.id \in SeqRange(alerts[deleter.i + 1].status.silencedBy)
                          THEN "remove" ELSE "next_alert"]
          ELSE [deleter EXCEPT !.pc = "store_remove"]
    /\ UNCHANGED <<alerts, alert_groups, silences, now, generator, sweep, last>>

\* line 237: list.remove raises ValueError when the id is no longer in the
\* list; delete_silence catches nothing, so the request ends with a 500
DeleteRemoveId ==
    /\ deleter.pc = "remove"
    /\ IF deleter.id \in SeqRange(alerts[deleter.i].status.silencedBy)
       THEN /\ alerts' = [alerts EXCEPT ![deleter.i].status.silencedBy =
                             ListRemove(@, deleter.id)]
            /\ deleter' = [deleter EXCEPT !.pc = "check_empty"]
            /\ UNCHANGED last
       ELSE /\ deleter' = [deleter EXCEPT !.pc = "done", !.code = 500]
            /\ last' = [op |-> "delete_silence", code |-> 500]
            /\ UNCHANGED alerts
    /\ UNCHANGED <<alert_groups, silences, now, generator, sweep>>

\* line 240
DeleteCheckEmpty ==
    /\ deleter.pc = "check_empty"
    /\ deleter' = [deleter EXCEPT
                      !.pc = IF alerts[deleter.i].status.silencedBy = <<>>
                             THEN "revert" ELSE "next_alert"]
    /\ UNCHANGED <<alerts, alert_groups, silences, now, generator, sweep, last>>

\* lines 241-242
DeleteRevert ==
    /\ deleter.pc = "revert"
    /\ alerts' = [alerts EXCEPT ![deleter.i].status.state =
                     IF @ = "suppressed" THEN "active" ELSE @]
    /\ deleter' = [deleter EXCEPT !.pc = "next_alert"]
    /\ UNCHANGED <<alert_groups, silences, now, generator, sweep, last>>

\* lines 663-664: silences.remove(silence), then the 200
DeleteFromStore ==
    /\ deleter.pc = "store_remove"
    /\ LET found == {k \in 1..Len(silences) : silences[k].id = deleter.id}
       IN IF found = {}
          THEN /\ deleter' = [deleter EXCEPT !.pc = "done", !.code = 500]
               /\ last' = [op |-> "delete_silence", code |-> 500]
               /\ UNCHANGED silences
          ELSE /\ silences' = ListRemove(silences,
                                 silences[CHOOSE k \in found : \A m \in found : k <= m])
               /\ deleter' = [deleter EXCEPT !.pc = "done", !.code = 200]
               /\ last' = [op |-> "delete_silence", code |-> 200]
    /\ UNCHANGED <<alerts, alert_groups, now, generator, sweep>>

\* a second silence, as POST /api/v2/silences stores it
second_silence ==
    new_silence(silence_payload("s2", <<regex_c>>, <<Iso(0), Iso(1)>>))

\* the Store at start-up, or after one POST of second_silence
RaceInit ==
    /\ now = 0
    /\ \E n \in 1..MaxAlerts : \E als \in initial_alerts(n, ALERT_TEMPLATES, SpecReceivers) :
       \E more \in {<<>>, <<second_silence>>} :
          /\ silences = <<initial_silence(<<"c", "p">>)>> \o more
          /\ alert_groups = create_alert_groups(als).groups
          /\ alerts = apply_silences_to_alerts(als, silences, 0).alerts
    /\ generator = Running
    /\ sweep = SweepIdle
    /\ deleter = DeleterIdle
    /\ last = [op |-> "start", code |-> 0]

RaceNext ==
    \/ TickBegin
    \/ SweepNextAlert
    \/ SweepNextSilence
    \/ SweepWriteState
    \/ SweepWriteSilencedBy
    \/ \E silence_id \in SilenceIds : DeleteBegin(silence_id)
    \/ DeleteNextAlert
    \/ DeleteRemoveId
    \/ DeleteCheckEmpty
    \/ DeleteRevert
    \/ DeleteFromStore
    \/ AdvanceClock

SpecRace == RaceInit /\ [][RaceNext]_vars

\* ---- SpecResolveRace: requests beside the thread's resolve block ----
\* The resolve block takes its sample of active alerts (lines 372-375) and then
\* writes to each sampled alert (lines 377-382); a request served on another
\* thread can run between the two.  The requests and the other blocks of the
\* thread are whole steps here.  While the thread is inside the resolve block,
\* sweep holds its position: the sampled alerts it has not written yet.
ResolveBegin ==
    /\ generator.alive
    /\ sweep.pc = "idle"
    /\ IF active_alerts(alerts) = {}
       THEN /\ last' = [op |-> "resolve", code |-> 0]
            /\ UNCHANGED sweep
       ELSE /\ \E chosen \in SUBSET active_alerts(alerts) :
                  /\ Cardinality(chosen) \in
                        resolve_counts(Cardinality(active_alerts(alerts)))
                  /\ sweep' = [pc |-> "resolve_write", pending |-> chosen]
            /\ UNCHANGED last
    /\ UNCHANGED <<alerts, alert_groups, silences, now, generator, deleter>>

\* lines 377-382 for the next alert of the sample
ResolveWrite ==
    /\ sweep.pc = "resolve_write"
    /\ \E i \in sweep.pending :
          /\ alerts' = [alerts EXCEPT ![i] = resolve_alert(@, now)]
          /\ IF resolve_print_raises(alerts[i])
             THEN /\ sweep' = SweepIdle
                  /\ generator' = Dead
                  /\ last' = [op |-> "resolve", code |-> -1]
             ELSE /\ sweep' = [sweep EXCEPT !.pending = @ \ {i}]
                  /\ UNCHANGED <<generator, last>>
    /\ UNCHANGED <<alert_groups, silences, now, deleter>>

\* line 384: the sample is exhausted, regroup
ResolveEnd ==
    /\ sweep.pc = "resolve_write"
    /\ sweep.pending = {}
    /\ LET g == create_alert_groups(alerts)
       IN /\ alert_groups' = IF g.raised THEN alert_groups ELSE g.groups
          /\ generator' = after_block(g.raised)
          /\ last' = [op |-> "resolve", code |-> IF g.raised THEN -1 ELSE 0]
    /\ sweep' = SweepIdle
    /\ UNCHANGED <<alerts, silences, now, deleter>>

\* the thread's other blocks run when it is not inside the resolve block
BetweenBlocks == sweep.pc = "idle"

ResolveRaceSilences ==
    {silence_payload(id, <<regex_c>>, <<Iso(0), Iso(1)>>) : id \in SilenceIds}

ResolveRaceNext ==
    \/ ResolveBegin
    \/ ResolveWrite
    \/ ResolveEnd
    \/ BetweenBlocks /\ Tick
    \/ BetweenBlocks /\ \E chosen \in SUBSET (1..Len(alerts)) : UpdateAlerts(chosen)
    \/ PostSilences(ResolveRaceSilences)
    \/ DeleteSilence
    \/ AdvanceClock

SpecResolveRace == RaceInit /\ [][ResolveRaceNext]_vars

\* ---- SpecUpsert: well-formed silence requests and the tick, one after the other ----
UpsertWindows == {<<Iso(0), Iso(1)>>, <<Iso(1), Iso(2)>>}

UpsertSilences ==
    {silence_payload(id, <<regex_c>>, w) : id \in SilenceIds, w \in UpsertWindows}

UpsertNext ==
    \/ PostSilences(UpsertSilences)
    \/ DeleteSilence
    \/ Tick
    \/ AdvanceClock

SpecUpsert == Init /\ [][UpsertNext]_vars

\* ---- SpecGroups: create_alert_groups over the alert lists POST can build ----
GroupLabels ==
    {[alertname |-> a, job |-> j] : a \in {<<"c">>, <<"_", "c">>}, j \in {<<"b">>, <<"n">>}}

\* the request bodies of at most n alerts
RECURSIVE group_batches(_)
group_batches(n) ==
    IF n = 0 THEN {<<>>}
    ELSE group_batches(n - 1)
            \cup {Append(b, [labels |-> l]) : b \in group_batches(n - 1), l \in GroupLabels}

\* the alert list after one POST of batch to an empty Store, before the regroup
GroupsInit ==
    /\ \E batch \in group_batches(MaxBatch) :
       \E recv \in [1..Len(batch) -> RECEIVER_NAMES] :
          alerts = post_alerts_loop(batch, recv, <<>>, <<>>, 0, 1).alerts
    /\ alert_groups = <<>>
    /\ silences = <<>>
    /\ now = 0
    /\ generator = Running
    /\ sweep = SweepIdle
    /\ deleter = DeleterIdle
    /\ last = [op |-> "start", code |-> 0]

Regroup ==
    /\ LET g == create_alert_groups(alerts)
       IN /\ alert_groups' = IF g.raised THEN alert_groups ELSE g.groups
          /\ last' = [op |-> "regroup", code |-> IF g.raised THEN -1 ELSE 0]
    /\ UNCHANGED <<alerts, silences, now, generator, sweep, deleter>>

GroupsNext == Regroup

SpecGroups == GroupsInit /\ [][GroupsNext]_vars

\* ---- SpecFilter: the query filters of GET /api/v2/alerts, applied ----
FlagNames == {"active", "silenced", "inhibited", "unprocessed"}

FlagValues == {<<"T", "r", "u", "e">>, <<"f", "a", "l", "s", "e">>}

\* request.args: each flag absent or given one of the values
FilterArgs == UNION {[D -> FlagValues] : D \in SUBSET FlagNames}

FilterStates == {"active", "suppressed", "unprocessed", "resolved"}

\* an alert as the filter reads it: its state and its inhibitedBy list
filter_alert(state, inhibited_by, oid) ==
    [generate_random_alert(CHOOSE tp \in ALERT_TEMPLATES : tp.job = <<"n">>,
                           <<"w", "h">>, state, oid, 0)
        EXCEPT !.status.inhibitedBy = inhibited_by]

\* the alert lists of length n handed to the filter
RECURSIVE filter_lists(_)
filter_lists(n) ==
    IF n = 0 THEN {<<>>}
    ELSE {Append(l, filter_alert(st, inh, n)) :
             l \in filter_lists(n - 1), st \in FilterStates, inh \in {<<>>, <<"f">>}}

FilterReceivers == {None, <<"e">>, <<"x">>}

FilterLabelFilters == {<<>>, <<<<"job", "=", "n">>>>, <<<<"job">>>>}

\* the start-up state with a request waiting: a call of filter_alerts_by_params
\* on a list, or a GET /api/v2/alerts on the store
FilterInit ==
    /\ now = 0
    /\ \E n \in 0..MaxAlerts :
       \E als \in initial_alerts(n, ALERT_TEMPLATES, RECEIVER_NAMES) :
          /\ silences = <<initial_silence(<<"c">>)>>
          /\ alert_groups = create_alert_groups(als).groups
          /\ alerts = apply_silences_to_alerts(als, silences, 0).alerts
          /\ \/ /\ n = 0
                /\ \E m \in 0..MaxAlerts : \E alert_list \in filter_lists(m) :
                   \E args \in FilterArgs :
                      last = [op |-> "call", code |-> 0,
                              alert_list |-> alert_list, args |-> args]
             \/ \E args \in FilterArgs, receiver_filter \in FilterReceivers,
                   filters \in FilterLabelFilters :
                   last = [op |-> "GET", code |-> 0, args |-> args,
                           receiver |-> receiver_filter, filters |-> filters]
    /\ generator = Running
    /\ sweep = SweepIdle
    /\ deleter = DeleterIdle

\* the waiting call of filter_alerts_by_params runs
FilterCall ==
    /\ last.op = "call"
    /\ last' = [op |-> "filter_alerts_by_params", code |-> 0,
                alert_list |-> last.alert_list, args |-> last.args,
                filtered |-> filter_alerts_by_params(last.alert_list, last.args)]
    /\ UNCHANGED <<alerts, alert_groups, silences, now, generator, sweep, deleter>>

\* the waiting GET /api/v2/alerts is served
GetAlerts ==
    /\ last.op = "GET"
    /\ last' = [op |-> "get_alerts", code |-> 200, args |-> last.args,
                receiver |-> last.receiver, filters |-> last.filters,
                body |-> get_alerts(alerts, last.args, last.receiver, last.filters)]
    /\ UNCHANGED <<alerts, alert_groups, silences, now, generator, sweep, deleter>>

FilterNext == FilterCall \/ GetAlerts

SpecFilter == FilterInit /\ [][FilterNext]_vars

\* ---- SpecValidation: silence requests with each defect the validation names ----
\* a dict without one of its keys
dict_without(d, key) == [k \in DOMAIN d \ {key} |-> d[k]]

complete_silence(id) == silence_payload(id, <<regex_c>>, <<Iso(0), Iso(1)>>)

\* request bodies that lines 601-612 refuse
DefectiveSilences ==
    {dict_without(complete_silence("s1"), required_fields[k]) : k \in 1..Len(required_fields)}
        \cup {silence_payload("s1", <<>>, <<Iso(0), Iso(1)>>)}
        \cup {silence_payload("s1", <<regex_c, dict_without(regex_c, key)>>, <<Iso(0), Iso(1)>>) :
                 key \in {"name", "value", "isRegex"}}

\* request bodies that pass lines 601-612: complete ones, with isEqual true,
\* false or absent, and one whose endsAt does not parse
PassingSilences ==
    {silence_payload(id, <<m>>, <<Iso(0), Iso(1)>>) :
        id \in SilenceIds,
        m \in {regex_c, [regex_c EXCEPT !.isEqual = FALSE], dict_without(regex_c, "isEqual")}}
        \cup {silence_payload("s2", <<regex_c>>, <<Iso(0), Malformed>>)}

ValidationSilences == DefectiveSilences \cup PassingSilences

ValidationNext ==
    \/ PostSilences(ValidationSilences)
    \/ DeleteSilence
    \/ Tick
    \/ AdvanceClock

SpecValidation == Init /\ [][ValidationNext]_vars

\* ---- SpecLive: the thread's blocks run again and again while it lives ----
\* the initial silence names an alertname no generated alert carries
LiveInit == InitOver(SpecTemplates, SpecReceivers, {<<"c">>})

\* a silence that covers the alerts until the clock passes 1, and one whose
\* endsAt does not parse
LiveSilences ==
    {silence_payload("s2", <<regex_c>>, w) : w \in {<<Iso(0), Iso(1)>>, <<Iso(0), Malformed>>}}

\* the update block (lines 353-357) drawing random.random() < 0.1 for the alert
\* of identity oid, and possibly for others
UpdateOne(oid) ==
    \E chosen \in SUBSET (1..Len(alerts)) :
        /\ \E i \in chosen : alerts[i].oid = oid
        /\ UpdateAlerts(chosen)

LiveNext ==
    \/ \E oid \in 1..MaxAlerts : UpdateOne(oid)
    \/ Tick
    \/ RemoveOld
    \/ PostSilences(LiveSilences)
    \/ AdvanceClock

\* while True (line 338) with time.sleep(15): a living thread reaches the
\* silences block every pass, and each alert's 10% draw comes up sooner or
\* later; the wall clock moves on
LiveFairness ==
    /\ WF_vars(Tick)
    /\ WF_vars(AdvanceClock)
    /\ \A oid \in 1..MaxAlerts : WF_vars(UpdateOne(oid))

SpecLive == LiveInit /\ [][LiveNext]_vars /\ LiveFairness

\* ---- SpecResolve: the thread's blocks over alerts that carry updatedAt ----
\* the alert with the updatedAt it was created with (lines 286, 531)
with_updatedAt(alert, t) ==
    [f \in DOMAIN alert \cup {"updatedAt"} |-> IF f = "updatedAt" THEN Iso(t) ELSE alert[f]]

\* start-up, and then possibly one POST /api/v2/alerts of an alert that has no
\* instance label
ResolveInit ==
    /\ now = 0
    /\ \E n \in 0..MaxAlerts : \E als \in initial_alerts(n, SpecTemplates, SpecReceivers) :
       \E batch \in {<<>>, <<valid_alert>>} :
          /\ n + Len(batch) <= MaxAlerts
          /\ LET started == apply_silences_to_alerts(
                                als, <<initial_silence(<<"c", "p">>)>>, 0).alerts
                 posted == post_alerts_loop(batch, [k \in 1..Len(batch) |-> <<"w", "h">>],
                               started, create_alert_groups(als).groups, 0, 1).alerts
             IN /\ alerts = [i \in 1..Len(posted) |-> with_updatedAt(posted[i], 0)]
                /\ alert_groups = create_alert_groups(posted).groups
    /\ silences = <<initial_silence(<<"c", "p">>)>>
    /\ generator = Running
    /\ sweep = SweepIdle
    /\ deleter = DeleterIdle
    /\ last = [op |-> "start", code |-> 0]

ResolveNext ==
    \/ \E chosen \in SUBSET (1..Len(alerts)) : \E done \in SUBSET chosen :
          Resolve(chosen, done)
    \/ \E chosen \in SUBSET (1..Len(alerts)) : UpdateAlerts(chosen)
    \/ Tick
    \/ PostSilences(UpsertSilences)
    \/ AdvanceClock

SpecResolve == ResolveInit /\ [][ResolveNext]_vars

\* ---- SpecMatcher: matches_label and match_silence_to_alert, applied ----
MatcherPatterns ==
    {<<>>, <<"c">>, <<"^", "c">>, <<"c", "$">>, <<".", "p">>, <<"(">>, <<"c", "{N}">>}

MatcherLabelValues == {None, <<>>, <<"c">>, <<"c", "p">>, <<"p", "c">>}

\* matchers with every field, and the same without isEqual
Matchers ==
    {[name |-> "alertname", value |-> v, isRegex |-> r, isEqual |-> e] :
        v \in MatcherPatterns, r \in BOOLEAN, e \in BOOLEAN}
    \cup {[name |-> "alertname", value |-> v, isRegex |-> r] :
             v \in MatcherPatterns, r \in BOOLEAN}

\* the matchers the silences of SpecMatcher are built of
SilenceMatchers ==
    {m \in Matchers : "isEqual" \in DOMAIN m /\ m.value \in {<<"c">>, <<"(">>, <<"c", "{N}">>}}
    \cup {[name |-> "job", value |-> <<"n">>, isRegex |-> FALSE, isEqual |-> TRUE]}

MatcherAlertLabels ==
    {[job |-> <<"n">>], [alertname |-> <<"c">>, job |-> <<"n">>],
     [alertname |-> <<"c", "p">>, job |-> <<"b">>]}

\* the start-up state with a call waiting: matches_label on a matcher and a
\* label value, or match_silence_to_alert on a silence and an alert's labels
MatcherInit ==
    /\ now \in 0..MaxTime
    /\ alerts = <<>>
    /\ alert_groups = <<>>
    /\ silences = <<initial_silence(<<"c">>)>>
    /\ generator = Running
    /\ sweep = SweepIdle
    /\ deleter = DeleterIdle
    /\ \/ \E matcher \in Matchers, label_value \in MatcherLabelValues :
             last = [op |-> "call", code |-> 0, fn |-> "matches_label",
                     matcher |-> matcher, label_value |-> label_value]
       \/ \E m1 \in SilenceMatchers, m2 \in SilenceMatchers, labels \in MatcherAlertLabels :
          \E matchers \in {<<m1>>, <<m1, m2>>} :
             last = [op |-> "call", code |-> 0, fn |-> "match_silence_to_alert",
                     silence |-> new_silence(silence_payload("s2", matchers,
                                                            <<Iso(0), Iso(1)>>)),
                     labels |-> labels]

\* the waiting call of matches_label runs; code -1 when it raises
MatchesLabelCall ==
    /\ last.op = "call" /\ last.fn = "matches_label"
    /\ last' = [op |-> "matches_label",
                code |-> IF matches_label_raises(last.matcher) THEN -1 ELSE 0,
                matcher |-> last.matcher, label_value |-> last.label_value,
                result |-> IF matches_label_raises(last.matcher) THEN None
                           ELSE matches_label(last.matcher, last.label_value)]
    /\ UNCHANGED <<alerts, alert_groups, silences, now, generator, sweep, deleter>>

\* the waiting call of match_silence_to_alert runs; code -1 when it raises
MatchSilenceCall ==
    /\ last.op = "call" /\ last.fn = "match_silence_to_alert"
    /\ LET alert == [labels |-> last.labels]
           raised == \/ match_silence_raises(last.silence)
                     \/ match_silence_matcher_raises(last.silence, alert, now)
       IN last' = [op |-> "match_silence_to_alert",
                   code |-> IF raised THEN -1 ELSE 0,
                   silence |-> last.silence, labels |-> last.labels,
                   result |-> IF raised THEN None
                              ELSE match_silence_to_alert(last.silence, alert, now)]
    /\ UNCHANGED <<alerts, alert_groups, silences, now, generator, sweep, deleter>>

MatcherNext == MatchesLabelCall \/ MatchSilenceCall

SpecMatcher == MatcherInit /\ [][MatcherNext]_vars

\* ---- SpecFingerprint: the alerts carry the fingerprint they were created with ----
\* generate_fingerprint draws 16 hexadecimal digits with random.choices; the
\* two values stand for the 16^16 it can return
Fingerprints == {<<"0", "a">>, <<"0", "b">>}

generate_fingerprint == Fingerprints

\* the alert with its "fingerprint" entry (lines 291, 526)
with_fingerprint(alert, fp) ==
    [f \in DOMAIN alert \cup {"fingerprint"} |-> IF f = "fingerprint" THEN fp ELSE alert[f]]

\* the list with the alerts from position k on given the fingerprints fps drew
stamp_from(als, k, fps) ==
    [i \in 1..Len(als) |-> IF i < k THEN als[i] ELSE with_fingerprint(als[i], fps[i - k + 1])]

FingerprintInit ==
    /\ now = 0
    /\ \E n \in 0..MaxAlerts : \E als \in initial_alerts(n, SpecTemplates, SpecReceivers) :
       \E fps \in [1..n -> generate_fingerprint] :
          /\ silences = <<initial_silence(<<"c">>)>>
          /\ alert_groups = create_alert_groups(als).groups
          /\ alerts = stamp_from(apply_silences_to_alerts(als, silences, 0).alerts, 1, fps)
    /\ generator = Running
    /\ sweep = SweepIdle
    /\ deleter = DeleterIdle
    /\ last = [op |-> "start", code |-> 0]

FingerprintGenerate ==
    \E tp \in SpecTemplates, r \in SpecReceivers, st \in AlertStates :
    \E fp \in generate_fingerprint :
        GenerateWith(with_fingerprint(
            generate_random_alert(tp, r, st, fresh_oid(alerts, alert_groups), now), fp))

FingerprintPostAlerts ==
    \E batch \in {<<valid_alert>>, <<valid_alert, valid_alert>>} :
    \E recv \in [1..Len(batch) -> SpecReceivers] :
    \E fps \in [1..Len(batch) -> generate_fingerprint] :
        /\ Len(alerts) + Len(batch) <= MaxAlerts
        /\ LET r == post_alerts_loop(batch, recv, alerts, alert_groups, now, 1)
           IN post_alerts_after_loop(
                 [r EXCEPT !.alerts = stamp_from(@, Len(alerts) + 1, fps)])

FingerprintNext ==
    \/ FingerprintGenerate
    \/ FingerprintPostAlerts
    \/ \E chosen \in SUBSET (1..Len(alerts)) : UpdateAlerts(chosen)
    \/ Tick
    \/ RemoveOld
    \/ AdvanceClock

SpecFingerprint == FingerprintInit /\ [][FingerprintNext]_vars

\* ---- what the claims speak of ----
AlertIdx == 1..Len(alerts)

state_of(alert) == alert.status.state

silenced_by_set(alert) == SeqRange(alert.status.silencedBy)

all_matchers_hold(silence, alert) ==
    \A k \in 1..Len(silence.matchers) :
        matches_label(silence.matchers[k],
                      dict_get(alert.labels, silence.matchers[k].name))

\* the ids of the silences of sils that cover alert at instant t
covering_ids(sils, alert, t) ==
    {sils[j].id : j \in {k \in 1..Len(sils) :
                            /\ ~match_silence_raises(sils[k])
                            /\ match_silence_to_alert(sils[k], alert, t)}}

window_malformed(silence_data) ==
    fromisoformat_raises(silence_data.startsAt) \/ fromisoformat_raises(silence_data.endsAt)

\* C1: in every state reached by whole operations, an alert with a non-empty
\* silencedBy is suppressed.
C1_SilencedIsSuppressed ==
    \A i \in AlertIdx :
        alerts[i].status.silencedBy # <<>> => state_of(alerts[i]) = "suppressed"

\* the resolution pass has just run beside an alert a silence holds suppressed
C1_Witness ==
    /\ last.op = "resolve"
    /\ \E i \in AlertIdx : state_of(alerts[i]) = "resolved"
    /\ \E i \in AlertIdx :
          alerts[i].status.silencedBy # <<>> /\ state_of(alerts[i]) = "suppressed"

\* a step in which the Silence Applicator pass ran: a POST of a silence that
\* passed validation, or the thread's silences block past the expiration check
ApplicatorRan ==
    \/ \E d \in SpecSilences : ~silence_data_invalid(d) /\ post_silences(d)
    \/ Tick /\ ~check_silence_expiration(silences, alerts, now).raised

\* C2: right after an Applicator pass every alert's silencedBy is exactly the set
\* of ids of the stored silences covering it, and an alert that was active or
\* suppressed is suppressed afterwards iff that set is non-empty.
C2_PassLeavesExactCoverage ==
    [][ApplicatorRan =>
          \A i \in 1..Len(alerts') :
             /\ silenced_by_set(alerts'[i]) = covering_ids(silences', alerts'[i], now')
             /\ state_of(alerts[i]) \in {"active", "suppressed"} =>
                   (state_of(alerts'[i]) = "suppressed"
                       <=> covering_ids(silences', alerts'[i], now') # {})]_vars

\* C3: when DeleteSilence(id) succeeds, no alert lists id any more, every alert
\* that listed only id is active with an empty silencedBy, and every alert that
\* lists another silence is still suppressed.
C3_DeleteRevertsSuppression ==
    [][\A id \in SilenceIds :
          (delete_silence(id) /\ last'.code = 200) =>
             \A i \in AlertIdx :
                /\ id \notin silenced_by_set(alerts'[i])
                /\ silenced_by_set(alerts[i]) = {id} =>
                      /\ state_of(alerts'[i]) = "active"
                      /\ alerts'[i].status.silencedBy = <<>>
                /\ silenced_by_set(alerts[i]) \ {id} # {} =>
                      /\ state_of(alerts'[i]) = "suppressed"
                      /\ silenced_by_set(alerts'[i]) = silenced_by_set(alerts[i]) \ {id}]_vars

\* a delete has just succeeded: one alert went back to active, another is still
\* held by the other silence
C3_Witness ==
    /\ last = [op |-> "delete_silence", code |-> 200]
    /\ \E i \in AlertIdx :
          state_of(alerts[i]) = "active" /\ covering_ids(silences, alerts[i], now) = {}
    /\ \E i \in AlertIdx :
          state_of(alerts[i]) = "suppressed" /\ alerts[i].status.silencedBy # <<>>

\* C4: after the pass run by a POST of a silence whose window contains now, an
\* active alert its matchers hold for is suppressed, with silencedBy = {id} when
\* no other stored silence covers it.
C4_CoverageSuppresses ==
    [][\A d \in SpecSilences :
          (/\ ~silence_data_invalid(d)
           /\ ~window_malformed(d)
           /\ fromisoformat(d.startsAt) <= now /\ now <= fromisoformat(d.endsAt)
           /\ post_silences(d)) =>
             \A i \in AlertIdx :
                (state_of(alerts[i]) = "active" /\ all_matchers_hold(d, alerts[i])) =>
                   /\ state_of(alerts'[i]) = "suppressed"
                   /\ covering_ids(silences', alerts[i], now) = {d.id} =>
                         alerts'[i].status.silencedBy = <<d.id>>]_vars

\* C5: a second Applicator pass at the same instant over the same Store leaves
\* every alert as the first pass left it.
C5_ApplyIdempotent ==
    LET once == apply_silences_to_alerts(alerts, silences, now)
        twice == apply_silences_to_alerts(once.alerts, silences, now)
    IN twice.alerts = once.alerts

\* a Store in which the first pass completes and changes some alert
C5_Witness ==
    LET once == apply_silences_to_alerts(alerts, silences, now)
    IN /\ ~once.raised
       /\ \E i \in AlertIdx : state_of(once.alerts[i]) # state_of(alerts[i])
       /\ \E i \in AlertIdx : once.alerts[i].status.silencedBy # <<>>

\* the stored silences whose window parses
ParsedSilences == {j \in 1..Len(silences) : ~match_silence_raises(silences[j])}

C7_RejectedBatchChangesNothing ==
    [][(last'.op = "post_alerts" /\ last'.code # 200) =>
          (alerts' = alerts /\ alert_groups' = alert_groups)]_vars

\* C8: CreateOrUpdateSilence of a silence with an unparsable startsAt or endsAt
\* answers with a validation error and changes neither the silences nor any alert.
C8_MalformedSilenceChangesNothing ==
    [][\A d \in SpecSilences :
          (window_malformed(d) /\ post_silences(d)) =>
             (last'.code = 400 /\ silences' = silences /\ alerts' = alerts)]_vars

\* C9: no request is fatal to the background thread, and a later valid
\* CreateOrUpdateSilence still succeeds.
C9_NoPayloadIsFatal ==
    [][/\ generator.alive => generator'.alive
       /\ \A d \in SpecSilences :
             (~silence_data_invalid(d) /\ ~window_malformed(d) /\ post_silences(d)) =>
                last'.code = 200]_vars

\* C10: once a DELETE of a stored silence has answered 200 and the sweep it ran
\* beside has ended, no alert lists the deleted id and no alert is suppressed
\* with nothing but that id to hold it.
C10_DeleteAndSweepSerialized ==
    (sweep.pc = "done" /\ deleter.pc = "done" /\ deleter.code = 200) =>
        \A i \in AlertIdx :
            /\ deleter.id \notin silenced_by_set(alerts[i])
            /\ state_of(alerts[i]) = "suppressed" =>
                  silenced_by_set(alerts[i]) \ {deleter.id} # {}

\* C11: in every state a read request can observe while requests run beside the
\* thread's resolve block, an alert with a non-empty silencedBy is suppressed.
C11_SilencedIsSuppressedUnderRace ==
    \A i \in AlertIdx :
        silenced_by_set(alerts[i]) # {} => state_of(alerts[i]) = "suppressed"

\* the fields a POST of silence_data is to store
carries_fields(silence, silence_data) ==
    /\ silence.id = silence_data.id
    /\ silence.matchers = silence_data.matchers
    /\ silence.startsAt = silence_data.startsAt
    /\ silence.endsAt = silence_data.endsAt
    /\ silence.createdBy = silence_data.createdBy
    /\ silence.comment = silence_data.comment

ids_unique(sils) ==
    \A j, k \in 1..Len(sils) : sils[j].id = sils[k].id => j = k

\* C12: a well-formed CreateOrUpdateSilence never errors; with the id of a stored
\* silence it replaces that silence at its position, the list keeping its
\* length and its other silences; with a new id the list grows by one; ids stay
\* unique.
C12_UpsertReplacesInPlace ==
    [][\A d \in UpsertSilences :
          (~silence_data_invalid(d) /\ ~window_malformed(d) /\ post_silences(d)) =>
             LET at == {k \in 1..Len(silences) : silences[k].id = d.id}
             IN /\ last'.code = 200
                /\ ids_unique(silences')
                /\ IF at = {}
                   THEN /\ Len(silences') = Len(silences) + 1
                        /\ carries_fields(silences'[Len(silences')], d)
                        /\ \A k \in 1..Len(silences) : silences'[k] = silences[k]
                   ELSE /\ Len(silences') = Len(silences)
                        /\ \A k \in 1..Len(silences) :
                              IF k \in at THEN carries_fields(silences'[k], d)
                              ELSE silences'[k] = silences[k]]_vars

\* the ids of the stored silences whose status.state reads st
ids_in_state(sils, st) ==
    {sils[k].id : k \in {j \in 1..Len(sils) : sils[j].status.state = st}}

\* C13: a tick leaves no silence active whose endsAt has passed, and once the
\* stored silence of an id reads expired no step makes the stored silence of
\* that id read active.
C13_ExpiryIsTerminal ==
    [][/\ (Tick /\ last'.code = 0) =>
             \A k \in 1..Len(silences') :
                now > fromisoformat(silences'[k].endsAt) =>
                   silences'[k].status.state = "expired"
       /\ \A id \in SilenceIds :
             id \in ids_in_state(silences, "expired") =>
                id \notin ids_in_state(silences', "active")]_vars

\* the operations that add or remove alerts (or rewrite them, for the resolve block)
AlertSetOps == {"post_alerts", "generate", "resolve", "cleanup", "remove"}

\* the indexes of the groups that hold alert object oid
groups_of(oid) == {g \in 1..Len(alert_groups) : oid \in SeqRange(alert_groups[g].alerts)}

\* C14: after every operation that adds or removes alerts, whatever it answered,
\* the group view is the full regroup of the alert list: every stored alert is
\* in exactly one group and every member of a group is stored.
C14_GroupViewNeverStale ==
    last.op \in AlertSetOps =>
        /\ ~create_alert_groups(alerts).raised
        /\ alert_groups = create_alert_groups(alerts).groups
        /\ \A i \in AlertIdx : Cardinality(groups_of(alerts[i].oid)) = 1
        /\ \A g \in 1..Len(alert_groups) :
              SeqRange(alert_groups[g].alerts) \subseteq {alerts[i].oid : i \in AlertIdx}

\* the position in the Store of alert object oid
index_of(oid) == CHOOSE i \in AlertIdx : alerts[i].oid = oid

\* the Store position of the first member of group g
first_of(g) == index_of(alert_groups[g].alerts[1])

same_key(a, b) ==
    /\ a.receivers[1].name = b.receivers[1].name
    /\ a.labels["alertname"] = b.labels["alertname"]

flag_given_false(args, name) == name \in DOMAIN args /\ args[name] = <<"f", "a", "l", "s", "e">>

excluded_by_flags(alert, args) ==
    \/ state_of(alert) = "active" /\ flag_given_false(args, "active")
    \/ state_of(alert) = "suppressed" /\ flag_given_false(args, "silenced")
    \/ state_of(alert) = "unprocessed" /\ flag_given_false(args, "unprocessed")
    \/ alert.status.inhibitedBy # <<>> /\ flag_given_false(args, "inhibited")

\* C16: the filter keeps, in order, exactly the alerts no false flag excludes:
\* an alert is left out if and only if it is active and active is false, or
\* suppressed and silenced is false, or unprocessed and unprocessed is false,
\* or has a non-empty inhibitedBy and inhibited is false; with every flag at
\* its default the whole list comes back, and a resolved alert with an empty
\* inhibitedBy always does.
C16_FlagsExcludeExactly ==
    last.op = "filter_alerts_by_params" =>
        /\ last.filtered =
              SelectIdx(last.alert_list,
                 {i \in 1..Len(last.alert_list) :
                     ~excluded_by_flags(last.alert_list[i], last.args)})
        /\ (DOMAIN last.args = {} => last.filtered = last.alert_list)
        /\ \A i \in 1..Len(last.alert_list) :
              (state_of(last.alert_list[i]) = "resolved"
                 /\ last.alert_list[i].status.inhibitedBy = <<>>)
              => \E k \in 1..Len(last.filtered) : last.filtered[k] = last.alert_list[i]

\* a call with a false flag that left one alert out and kept a resolved one
C16_Witness ==
    /\ last.op = "filter_alerts_by_params"
    /\ \E name \in DOMAIN last.args : flag_given_false(last.args, name)
    /\ Len(last.alert_list) = 2
    /\ Len(last.filtered) = 1
    /\ state_of(last.filtered[1]) = "resolved"

\* the query of the claim: active=false, silenced=true, unprocessed=false,
\* inhibited=true, no receiver and no label filter
SuppressedQuery ==
    [active |-> <<"f", "a", "l", "s", "e">>, silenced |-> <<"t", "r", "u", "e">>,
     unprocessed |-> <<"f", "a", "l", "s", "e">>, inhibited |-> <<"t", "r", "u", "e">>]

suppressed_listing == get_alerts(alerts, SuppressedQuery, None, <<>>)

\* C17: in every reachable store, GET /api/v2/alerts with active=false,
\* silenced=true, unprocessed=false, inhibited=true and no other filter returns,
\* in store order, exactly the alerts that are suppressed or resolved or have a
\* non-empty inhibitedBy: active and unprocessed alerts are left out, resolved
\* ones are not.
C17_ListsSuppressedAndResolved ==
    suppressed_listing =
        SelectIdx(alerts,
           {i \in AlertIdx :
               \/ state_of(alerts[i]) \in {"suppressed", "resolved"}
               \/ alerts[i].status.inhibitedBy # <<>>})

\* a store holding a suppressed and a resolved alert, both in the listing
C17_Witness ==
    /\ \E i \in AlertIdx : state_of(alerts[i]) = "suppressed"
    /\ \E i \in AlertIdx : state_of(alerts[i]) = "resolved"
    /\ Len(suppressed_listing) = 2

\* C17 as stated: the listing holds exactly the suppressed alerts and those
\* with a non-empty inhibitedBy, and no other alert.
C17_ListsSuppressedOnly ==
    suppressed_listing =
        SelectIdx(alerts,
           {i \in AlertIdx :
               \/ state_of(alerts[i]) = "suppressed"
               \/ alerts[i].status.inhibitedBy # <<>>})

\* the defects the claim names
lacks_required_field(d) ==
    \E f \in {"matchers", "startsAt", "endsAt", "createdBy", "comment"} : f \notin DOMAIN d

has_defect(d) ==
    \/ lacks_required_field(d)
    \/ d.matchers = <<>>
    \/ \E k \in 1..Len(d.matchers) :
          \E f \in {"name", "value", "isRegex"} : f \notin DOMAIN d.matchers[k]

lacks_only_isEqual(d) ==
    /\ ~has_defect(d)
    /\ \E k \in 1..Len(d.matchers) : "isEqual" \notin DOMAIN d.matchers[k]

\* the request body with isEqual = true written into every matcher that lacks it
with_isEqual_true(d) ==
    [d EXCEPT !.matchers =
        [k \in 1..Len(d.matchers) |->
            IF "isEqual" \in DOMAIN d.matchers[k] THEN d.matchers[k]
            ELSE [f \in DOMAIN d.matchers[k] \cup {"isEqual"} |->
                     IF f = "isEqual" THEN TRUE ELSE d.matchers[k][f]]]]

same_states_and_silencers(als1, als2) ==
    /\ Len(als1) = Len(als2)
    /\ \A i \in 1..Len(als1) :
          /\ state_of(als1[i]) = state_of(als2[i])
          /\ als1[i].status.silencedBy = als2[i].status.silencedBy

\* C18: a silence request with one of the named defects (a required field
\* missing, no matcher, a matcher without name, value or isRegex) is answered
\* 400; every request answered 400 leaves the silences and each alert's state
\* and silencedBy as they were; a request whose only gap is a matcher's isEqual
\* is answered 200 and marks the alerts as the same request with isEqual = true
\* would.
C18_ValidationRejectsCleanly ==
    [][\A d \in ValidationSilences :
          post_silences(d) =>
             /\ has_defect(d) => last'.code = 400
             /\ last'.code = 400 =>
                   (silences' = silences /\ same_states_and_silencers(alerts', alerts))
             /\ lacks_only_isEqual(d) =>
                   /\ last'.code = 200
                   /\ alerts' = apply_silences_to_alerts(
                                   alerts,
                                   upsert_silence(silences, new_silence(with_isEqual_true(d))),
                                   now).alerts]_vars

stored(oid) == \E i \in AlertIdx : alerts[i].oid = oid

state_of_oid(oid) == state_of(alerts[CHOOSE i \in AlertIdx : alerts[i].oid = oid])

\* C19: every stored alert that is unprocessed is later active, or is removed
\* from the store, whether or not a silence covers it in between.
C19_UnprocessedBecomesActive ==
    \A oid \in 1..MaxAlerts :
        (stored(oid) /\ state_of_oid(oid) = "unprocessed")
            ~> (~stored(oid) \/ state_of_oid(oid) = "active")

\* C20: a pass of the resolution block changes only alerts that were active
\* when it ran: each alert it changes was active and is now resolved with
\* endsAt = updatedAt = now and the silencedBy it had; every other alert, the
\* suppressed, unprocessed and resolved ones among them, is exactly as before.
C20_ResolvesOnlyActive ==
    [][last'.op = "resolve" =>
          /\ Len(alerts') = Len(alerts)
          /\ \A i \in AlertIdx :
                IF alerts'[i] = alerts[i] THEN TRUE
                ELSE /\ state_of(alerts[i]) = "active"
                     /\ state_of(alerts'[i]) = "resolved"
                     /\ alerts'[i].endsAt = Iso(now)
                     /\ alerts'[i].updatedAt = Iso(now)
                     /\ alerts'[i].status.silencedBy = alerts[i].status.silencedBy]_vars

\* after a pass at a later hour: an alert it resolved, stamped with that hour,
\* next to a suppressed alert it left alone
C20_Witness ==
    /\ last.op = "resolve"
    /\ now > 0
    /\ \E i \in AlertIdx :
          /\ state_of(alerts[i]) = "resolved"
          /\ alerts[i].endsAt = Iso(now)
          /\ alerts[i].updatedAt = Iso(now)
    /\ \E i \in AlertIdx :
          /\ state_of(alerts[i]) = "suppressed"
          /\ alerts[i].updatedAt = Iso(0)

\* the operations that run the sweep of apply_silences_to_alerts
SweepOps == {"tick", "post_silences"}

\* C21: an alert that is resolved and still stored after a step is still
\* resolved, unless the step ran the sweep and the sweep found it covered by a
\* stored silence, which sets it suppressed; the update block, the resolution
\* block, DELETE of a silence, expiration and a sweep that finds no coverage
\* leave it resolved.
C21_ResolvedLeftOnlyByCoveringSweep ==
    [][\A i \in AlertIdx : \A j \in 1..Len(alerts') :
          (/\ alerts'[j].oid = alerts[i].oid
           /\ state_of(alerts[i]) = "resolved"
           /\ state_of(alerts'[j]) # "resolved")
          => /\ last'.op \in SweepOps
             /\ state_of(alerts'[j]) = "suppressed"
             /\ covering_ids(silences', alerts[i], now) # {}
             /\ silenced_by_set(alerts'[j]) = covering_ids(silences', alerts[i], now)]_vars

\* a resolved alert in the store right after a DELETE removed a silence
C21_Witness ==
    /\ last = [op |-> "delete_silence", code |-> 200]
    /\ \E i \in AlertIdx : state_of(alerts[i]) = "resolved"

\* the pattern is one re.compile accepts
pattern_valid(pattern) == ~re_compile_raises(pattern) /\ ~re_compile_overflows(pattern)

\* what the claim has the evaluator return for a matcher and a label value
evaluator_result(matcher, label_value_in) ==
    LET label_value == IF label_value_in = None THEN <<>> ELSE label_value_in
        found == IF matcher.isRegex
                 THEN pattern_valid(matcher.value) /\ re_search(matcher.value, label_value)
                 ELSE label_value = matcher.value
    IN IF "isEqual" \in DOMAIN matcher /\ ~matcher.isEqual THEN ~found ELSE found

\* C22: matches_label never raises and returns string equality for a plain
\* matcher and "pattern found somewhere in the value" for a regex matcher, an
\* invalid pattern being never found, negated when isEqual is false, an absent
\* label being the empty string; match_silence_to_alert never raises on a
\* silence with a well-formed window and answers true only if every matcher
\* of the silence holds.
C22_EvaluatorNeverRaises ==
    /\ last.op = "matches_label" =>
          /\ last.code = 0
          /\ last.result = evaluator_result(last.matcher, last.label_value)
    /\ last.op = "match_silence_to_alert" =>
          /\ last.code = 0
          /\ last.result = TRUE =>
                \A k \in 1..Len(last.silence.matchers) :
                    evaluator_result(last.silence.matchers[k],
                                     dict_get(last.labels, last.silence.matchers[k].name))

fingerprints_unique(als) ==
    \A i, j \in 1..Len(als) : als[i].fingerprint = als[j].fingerprint => i = j

\* C23: after every step no two stored alerts have the same fingerprint, and an
\* alert that is stored before and after the step has the fingerprint it had.
C23_FingerprintsUniqueAndFixed ==
    [][/\ fingerprints_unique(alerts')
       /\ \A i \in AlertIdx : \A j \in 1..Len(alerts') :
             alerts'[j].oid = alerts[i].oid =>
                alerts'[j].fingerprint = alerts[i].fingerprint]_vars

\* C24: every stored alert has an alertname label, and regrouping the stored
\* alerts does not fail.
C24_EveryAlertHasAlertname ==
    /\ \A i \in AlertIdx : "alertname" \in DOMAIN alerts[i].labels
    /\ ~create_alert_groups(alerts).raised

\* a step that runs the apply pass: a silence request that passed validation,
\* or the thread's silences block once expiration is through
ApplyPassRan ==
    \/ \E d \in SpecSilences \cup UpsertSilences : ~silence_data_invalid(d) /\ post_silences(d)
    \/ Tick /\ ~check_silence_expiration(silences, alerts, now).raised

\* C25: an apply pass sets every resolved or unprocessed alert that a stored
\* silence covers at that instant to suppressed; and an alert that leaves
\* suppressed, in whatever step, is active with an empty silencedBy, whatever
\* it was before it was suppressed, and so is among the alerts the resolution
\* block samples from.
C25_ForcingIsUnguardedAndMemoryless ==
    [][/\ ApplyPassRan =>
             \A i \in AlertIdx :
                (/\ state_of(alerts[i]) \in {"resolved", "unprocessed"}
                 /\ covering_ids(silences', alerts[i], now) # {})
                => state_of(alerts'[i]) = "suppressed"
       /\ \A i \in AlertIdx : \A j \in 1..Len(alerts') :
             (/\ alerts'[j].oid = alerts[i].oid
              /\ state_of(alerts[i]) = "suppressed"
              /\ state_of(alerts'[j]) # "suppressed")
             => /\ state_of(alerts'[j]) = "active"
                /\ alerts'[j].status.silencedBy = <<>>
                /\ j \in active_alerts(alerts')]_vars

====
